---------------------------- MODULE Spec2Model ----------------------------
(***************************************************************************)
(* A model of try-mdns (src/src/main.rs): a discovery loop that turns      *)
(* mDNS "resolved" events into outbound messages, a UDP transport that     *)
(* drains them from a bounded channel and logs inbound datagrams, and the  *)
(* fail-fast join (try_zip) that ties the loops together.                  *)
(*                                                                         *)
(* Strings are sequences of bytes (ASCII codes).  Every per-process piece  *)
(* of state is a function over Inst so that two processes can be run       *)
(* against each other over the modelled network.                           *)
(***************************************************************************)
EXTENDS Integers, Sequences, FiniteSets, TLC

\* ------------------------------------------------------------------------
\* Program constants
\* ------------------------------------------------------------------------

\* buf: [u8; 1 << 10]
BufCap == 1024

\* bounded(10)
QueueCap == 10

\* #[arg(short, default_value = "0")] port: u16
DefaultPort == 0

\* ------------------------------------------------------------------------
\* Bounds of the model
\* ------------------------------------------------------------------------

\* events the collaborator delivers to one process
MaxEvents == 6

\* length of a KEY=value argument
MaxArgLen == 5

\* datagrams in flight towards one socket
MaxNet == 1

\* ------------------------------------------------------------------------
\* Byte strings
\* ------------------------------------------------------------------------

\* '='
EqSign == 61

\* "MESSAGE "
TxtMessage == <<77, 69, 83, 83, 65, 71, 69, 32>>

\* " Resolved "
TxtResolved == <<32, 82, 101, 115, 111, 108, 118, 101, 100, 32>>

\* " END"
TxtEnd == <<32, 69, 78, 68>>

\* "invalid KEY=value: no `=` found in `"
TxtNoEq == <<105, 110, 118, 97, 108, 105, 100, 32, 75, 69, 89, 61, 118, 97,
             108, 117, 101, 58, 32, 110, 111, 32, 96, 61, 96, 32, 102, 111,
             117, 110, 100, 32, 105, 110, 32, 96>>

\* "`"
TxtTick == <<96>>

\* "Hello There"
TxtHello == <<72, 101, 108, 108, 111, 32, 84, 104, 101, 114, 101>>

\* "._example._udp.local."
TxtServiceSuffix == <<46, 95, 101, 120, 97, 109, 112, 108, 101, 46, 95, 117,
                      100, 112, 46, 108, 111, 99, 97, 108, 46>>

\* the elements of a sequence
Range(s) == {s[k] : k \in 1..Len(s)}

\* needle occurs in hay as a contiguous run of bytes
Contains(hay, needle) ==
    \E k \in 0..(Len(hay) - Len(needle)) :
        \A j \in 1..Len(needle) : hay[k + j] = needle[j]

\* ------------------------------------------------------------------------
\* parse_key_val
\* ------------------------------------------------------------------------

\* the scan of str::find from position k on
RECURSIVE FindFrom(_, _, _)
FindFrom(s, c, k) ==
    IF k > Len(s) THEN <<>>
    ELSE IF s[k] = c THEN <<k - 1>>
    ELSE FindFrom(s, c, k + 1)

\* str::rfind(char): the byte offset of the last occurrence, or None
rfind(s, c) ==
    LET hits == {k \in 1..Len(s) : s[k] = c}
    IN  IF hits = {} THEN <<>>
        ELSE <<(CHOOSE k \in hits : \A j \in hits : j <= k) - 1>>

\* str::find(char): the byte offset of the first occurrence, or None
find(s, c) == FindFrom(s, c, 1)

\* &s[lo..hi] (byte offsets, hi exclusive)
Slice(s, lo, hi) == SubSeq(s, lo + 1, hi)

\* format!("invalid KEY=value: no `=` found in `{s}`")
NoEqError(s) == TxtNoEq \o s \o TxtTick

\* parse_key_val::<String, String>: String::from_str never fails, so the two
\* parse() calls return the slices
parse_key_val(s) ==
    LET pos == find(s, EqSign)
    IN  IF pos = <<>>
        THEN [ok |-> FALSE, key |-> <<>>, val |-> <<>>, err |-> NoEqError(s)]
        ELSE [ok |-> TRUE,
              key |-> Slice(s, 0, pos[1]),
              val |-> Slice(s, pos[1] + 1, Len(s)),
              err |-> <<>>]

\* ------------------------------------------------------------------------
\* Message and its fmt::Write implementation
\* ------------------------------------------------------------------------

\* [0; 1024]
ZeroBuf == [k \in 1..BufCap |-> 0]

\* Message { dst, buf: [0; 1024], n: 0 }   (buf[k] holds the byte at offset k - 1)
NewMessage(dst) == [dst |-> dst, buf |-> ZeroBuf, n |-> 0]

\* a writer whose stores are clipped to the buffer but whose n is advanced
\* by s.len() whether or not the bytes fitted
write_str_unchecked(m, s) ==
    LET at   == IF m.n < BufCap THEN m.n ELSE BufCap
        room == BufCap - at
        w    == IF Len(s) <= room THEN s ELSE SubSeq(s, 1, room)
    IN  [msg   |-> [m EXCEPT !.buf = SubSeq(m.buf, 1, at) \o w
                                       \o SubSeq(m.buf, at + Len(w) + 1, BufCap),
                             !.n = m.n + Len(s)],
         panic |-> FALSE]

\* a writer that stores every piece at the start of the buffer (buf[i] = c)
\* and keeps only the last piece's length
write_str_restart(m, s) ==
    LET fits == Len(s) <= BufCap
        w    == IF fits THEN s ELSE SubSeq(s, 1, BufCap)
    IN  [msg   |-> [m EXCEPT !.buf = w \o SubSeq(m.buf, Len(w) + 1, BufCap),
                             !.n = IF fits THEN Len(s) ELSE m.n],
         panic |-> ~fits]

\* Message::write_str: buf[n + i] = c for every byte, then n += s.len().
\* The indexing is bounds-checked: the store at offset BufCap panics, after
\* the bytes that fit have been stored and before n is advanced.
write_str(m, s) ==
    LET room == BufCap - m.n
        fits == Len(s) <= room
        w    == IF fits THEN s ELSE SubSeq(s, 1, room)
        buf2 == SubSeq(m.buf, 1, m.n) \o w
                    \o SubSeq(m.buf, m.n + Len(w) + 1, BufCap)
    IN  [msg   |-> [m EXCEPT !.buf = buf2,
                             !.n = IF fits THEN m.n + Len(s) ELSE m.n],
         panic |-> ~fits]

\* core::fmt::write: the literal pieces and the arguments, in order, one
\* write_str each; a panic unwinds out of the remaining ones.  (r names the
\* writer after the first piece, so that it is computed once.)
RECURSIVE write_fmt(_, _)
write_fmt(w, pieces) ==
    IF pieces = <<>> \/ w.panic THEN w
    ELSE CHOOSE out \in {write_fmt(r, Tail(pieces)) :
                            r \in {write_str(w.msg, Head(pieces))}} : TRUE

\* write!(&mut msg, "MESSAGE {} Resolved {} END", instance_name, fullname)
WriteAnnouncement(m, instance_name, fullname) ==
    write_fmt([msg |-> m, panic |-> FALSE],
              <<TxtMessage, instance_name, TxtResolved, fullname, TxtEnd>>)

\* "MESSAGE <instance-name> Resolved <peer-fullname> END"
AnnouncementText(instance_name, fullname) ==
    TxtMessage \o instance_name \o TxtResolved \o fullname \o TxtEnd

\* ------------------------------------------------------------------------
\* Processes, addresses, inputs
\* ------------------------------------------------------------------------

Inst == {1, 2}

\* process i runs on the host whose selected interface address is 10.0.0.i;
\* 10.0.0.3 is a further address a peer host advertises
IpOf(i) == i

\* the port the OS assigns when the configured port is 0
EphemeralPort == 49152

\* a port given with -p
ConfiguredPort == 7000

\* the port a resolved peer advertises
PeerPort == 9000

\* "n1", "n2"
NameA == <<110, 49>>

NameB == <<110, 50>>

\* <instance>._example._udp.local.
FullName(instance_name) == instance_name \o TxtServiceSuffix

\* an instance name with which the announcement to peer "b" fills the buffer
\* exactly
FitName ==
    [k \in 1..(BufCap - Len(AnnouncementText(<<>>, FullName(NameB)))) |-> 120]

\* a peer full name that no buffer holds
LongFullName == [k \in 1..BufCap |-> 121]

NoConfig == [instance_name |-> <<>>, port |-> DefaultPort]

\* struct Config (service_name is left at its default)
Configs ==
    {[instance_name |-> NameA, port |-> DefaultPort],
     [instance_name |-> FitName, port |-> ConfiguredPort]}

Event(kind, addrs, port, fullname) ==
    [kind |-> kind, addrs |-> addrs, port |-> port, fullname |-> fullname]

\* mdns_sd::ServiceEvent values the browse receiver yields: addrs is
\* get_addresses_v4() in its iteration order
EventInputs ==
    {Event("ServiceResolved", a, PeerPort, f) :
        a \in {<<>>, <<2, 3>>}, f \in {FullName(NameB), LongFullName}}
    \cup {Event("ServiceFound", <<>>, 0, FullName(NameB))}

\* anyhow errors the two loops can return
DiscoveryErrors == {"ServiceInfoError", "DaemonError", "RegisterError", "BrowseError"}

Errors ==
    {"NoInterface", "BindError", "SocketSendError", "SocketRecvError",
     "RecvError", "SendError"} \cup DiscoveryErrors

\* KEY=value arguments: strings over 'a', 'b', 'c', '='
ArgStrings == UNION {[1..n -> {97, 98, 99, EqSign}] : n \in 0..MaxArgLen}

\* ------------------------------------------------------------------------
\* State
\* ------------------------------------------------------------------------

VARIABLES
    cfg,      \* Config of each process
    mpc,      \* main: "off", "new", "try_zip", "exited"
    exit,     \* what main returned: "none", "ok", "panic" or an error
    sock,     \* local port of the bound UdpSocket, 0 before the bind
    record,   \* the registered ServiceInfo (<<>> or <<r>>)
    sub,      \* the browse receiver: "none", "open", "closed"
    dpc,      \* DiscoveryService::run: "start", "recv_async", "send", "delay", "done", "panic"
    ev,       \* the event being handled (<<>> or <<e>>)
    idx,      \* position of the for loop in the event's addresses
    msg,      \* the Message built for the current address (<<>> or <<m>>)
    evq,      \* destinations enqueued for the current event
    nEvents,  \* events received so far
    queue,    \* the bounded channel
    spc,      \* send task: "recv", "send_to"
    cur,      \* the Message the send task dequeued (<<>> or <<m>>)
    sent,     \* the last datagram handed to send_to (<<>> or <<d>>)
    rlog,     \* the last RECV log line (<<>> or <<l>>)
    net,      \* datagrams in flight
    sRes,     \* result of the send task
    rRes,     \* result of the receive task
    dRes,     \* result of DiscoveryService::run
    arg,      \* a command line argument given to parse_key_val
    parsed,   \* its result (<<>> or <<r>>)
    tracing,  \* whether this run records its history
    events,   \* history: the events recv_async has yielded, in order
    enq,      \* history: the Messages tx.send has enqueued, in order
    txd,      \* history: the (destination, bytes) handed to send_to, in order
    nDelays   \* history: the pacing delays that have elapsed

mainVars == <<mpc, exit>>

resVars == <<sRes, rRes, dRes>>

discVars == <<record, sub, dpc, ev, idx, msg, evq, nEvents>>

sendVars == <<spc, cur, sent>>

parseVars == <<arg, parsed>>

histVars == <<tracing, events, enq, txd, nDelays>>

vars == <<cfg, mpc, exit, sock, record, sub, dpc, ev, idx, msg, evq, nEvents,
          queue, spc, cur, sent, rlog, net, sRes, rRes, dRes, arg, parsed,
          tracing, events, enq, txd, nDelays>>

\* the state before main runs in the processes `started`
Boot(c, started) ==
    /\ cfg = c
    /\ mpc = [i \in Inst |-> IF i \in started THEN "new" ELSE "off"]
    /\ exit = [i \in Inst |-> "none"]
    /\ sock = [i \in Inst |-> 0]
    /\ record = [i \in Inst |-> <<>>]
    /\ sub = [i \in Inst |-> "none"]
    /\ dpc = [i \in Inst |-> "start"]
    /\ ev = [i \in Inst |-> <<>>]
    /\ idx = [i \in Inst |-> 0]
    /\ msg = [i \in Inst |-> <<>>]
    /\ evq = [i \in Inst |-> <<>>]
    /\ nEvents = [i \in Inst |-> 0]
    /\ queue = [i \in Inst |-> <<>>]
    /\ spc = [i \in Inst |-> "recv"]
    /\ cur = [i \in Inst |-> <<>>]
    /\ sent = [i \in Inst |-> <<>>]
    /\ rlog = [i \in Inst |-> <<>>]
    /\ net = {}
    /\ sRes = [i \in Inst |-> "pending"]
    /\ rRes = [i \in Inst |-> "pending"]
    /\ dRes = [i \in Inst |-> "pending"]

\* the empty history; t tells whether the run records events and messages
HistInit(t) ==
    /\ tracing = t
    /\ events = [i \in Inst |-> <<>>]
    /\ enq = [i \in Inst |-> <<>>]
    /\ txd = [i \in Inst |-> <<>>]
    /\ nDelays = [i \in Inst |-> 0]

\* h with x appended to the history of process i, in a run that records it
Record(h, i, x) == IF tracing THEN [h EXCEPT ![i] = Append(@, x)] ELSE h

Init ==
    /\ \E c \in Configs : Boot([i \in Inst |-> IF i = 1 THEN c ELSE NoConfig], {1})
    /\ arg = <<>>
    /\ parsed = <<>>
    /\ HistInit(FALSE)

\* ------------------------------------------------------------------------
\* The fail-fast join
\* ------------------------------------------------------------------------

\* a join that waits for both sides whatever they return (future::zip)
Zip(a, b) ==
    IF a = "pending" \/ b = "pending" THEN "pending"
    ELSE IF a \in Errors THEN a
    ELSE b

\* smol::future::try_zip(a, b): the first error ends the join with that error;
\* otherwise it is pending until both sides are Ok
TryZip(a, b) ==
    IF a \in Errors THEN a
    ELSE IF b \in Errors THEN b
    ELSE IF a = "ok" /\ b = "ok" THEN "ok"
    ELSE "pending"

\* UdpService::run: try_zip(send task, receive task).await?; Ok(())
UdpRunResult(s, r) == TryZip(s, r)

\* a main that awaits the transport alone (the discovery loop detached)
MainResultUdpOnly(s, r, d) == UdpRunResult(s, r)

\* a main that joins the two loops with zip, waiting for both
MainResultZip(s, r, d) == Zip(UdpRunResult(s, r), d)

\* main: try_zip(udp_service.run(), discovery_service.run(tx)).await?; Ok(())
MainResult(s, r, d) == TryZip(UdpRunResult(s, r), d)

\* a task of process i ends its poll with the results s, r, d
Finish(i, s, r, d) ==
    /\ sRes' = [sRes EXCEPT ![i] = s]
    /\ rRes' = [rRes EXCEPT ![i] = r]
    /\ dRes' = [dRes EXCEPT ![i] = d]
    /\ LET res == MainResult(s, r, d)
       IN  /\ mpc' = [mpc EXCEPT ![i] = IF res = "pending" THEN @ ELSE "exited"]
           /\ exit' = [exit EXCEPT ![i] = IF res = "pending" THEN @ ELSE res]

\* the futures joined in main are being polled
Running(i) == mpc[i] = "try_zip"

\* a Sender that outlives DiscoveryService::run (a clone kept by main)
TxKept(i) == FALSE

\* the Sender moved into DiscoveryService::run is gone
TxDropped(i) == dRes[i] # "pending" \/ mpc[i] = "exited"

\* the Receiver owned by UdpService::run is gone
RxDropped(i) == UdpRunResult(sRes[i], rRes[i]) # "pending" \/ mpc[i] = "exited"

\* ------------------------------------------------------------------------
\* main: startup
\* ------------------------------------------------------------------------

\* UdpSocket::bind((addr, config.port)): port 0 asks the OS for a port
BoundPort(port) == IF port = 0 THEN EphemeralPort ELSE port

\* UdpService::new and DiscoveryService::new succeed; main enters the join
UdpNew(i) ==
    /\ mpc[i] = "new"
    /\ sock' = [sock EXCEPT ![i] = BoundPort(cfg[i].port)]
    /\ mpc' = [mpc EXCEPT ![i] = "try_zip"]
    /\ UNCHANGED <<cfg, exit, discVars, queue, sendVars, rlog, net, resVars, parseVars, histVars>>

\* UdpService::new fails: no interface in 10.0.0.0/8, or the bind fails
UdpNewFail(i) ==
    /\ mpc[i] = "new"
    /\ \E e \in {"NoInterface", "BindError"} :
           /\ mpc' = [mpc EXCEPT ![i] = "exited"]
           /\ exit' = [exit EXCEPT ![i] = e]
    /\ UNCHANGED <<cfg, sock, discVars, queue, sendVars, rlog, net, resVars, parseVars, histVars>>

\* ------------------------------------------------------------------------
\* DiscoveryService::run
\* ------------------------------------------------------------------------

\* a record that advertises the configured port instead of the bound one
ServiceRecordOfConfig(i) ==
    [instance_name |-> cfg[i].instance_name,
     fullname      |-> FullName(cfg[i].instance_name),
     port          |-> cfg[i].port]

\* a record built before any socket exists: it advertises port 0
ServiceRecordUnbound(i) ==
    [instance_name |-> cfg[i].instance_name,
     fullname      |-> FullName(cfg[i].instance_name),
     port          |-> DefaultPort]

\* ServiceInfo::new(service_name, instance_name, host, "", service_addr.port(), properties)
ServiceRecord(i) ==
    [instance_name |-> cfg[i].instance_name,
     fullname      |-> FullName(cfg[i].instance_name),
     port          |-> sock[i]]

\* up to the first await: build the record, start the daemon, register, browse
DiscStart(i) ==
    /\ Running(i)
    /\ dpc[i] = "start"
    /\ \E outcome \in {"ok"} \cup DiscoveryErrors :
           /\ record' = [record EXCEPT ![i] =
                  IF outcome \in {"ok", "BrowseError"} THEN <<ServiceRecord(i)>> ELSE <<>>]
           /\ sub' = [sub EXCEPT ![i] = IF outcome = "ok" THEN "open" ELSE "none"]
           /\ dpc' = [dpc EXCEPT ![i] = IF outcome = "ok" THEN "recv_async" ELSE "done"]
           /\ Finish(i, sRes[i], rRes[i], IF outcome = "ok" THEN "pending" ELSE outcome)
    /\ UNCHANGED <<cfg, sock, ev, idx, msg, evq, nEvents, queue, sendVars, rlog, net, parseVars, histVars>>

\* a loop that addresses every message to the event's first address
DstOfFirst(e, k) == <<e.addrs[1], e.port>>

\* SocketAddr::from((*ip, info.get_port()))
DstOf(e, k) == <<e.addrs[k], e.port>>

\* a match whose other arm is unimplemented!()
AfterArmTodo(e) == IF e.kind = "ServiceResolved" THEN "delay" ELSE "panic"

\* a loop without the pacing delay
AfterArmNoDelay(e) == "recv_async"

\* where the loop body goes once the arm matching e has run: every arm, the
\* `_ => ()` one included, falls through to the pacing delay
AfterArm(e) == "delay"

\* the for loop over the event's addresses, from the k-th address up to its
\* next await: the message for that address is built and written, and the
\* loop suspends in tx.send; past the last address (or for any other kind of
\* event) the loop body ends in the pacing delay
ForLoop(i, e, k) ==
    IF e.kind = "ServiceResolved" /\ k <= Len(e.addrs)
    THEN \E w \in {WriteAnnouncement(NewMessage(DstOf(e, k)),
                                     cfg[i].instance_name, e.fullname)} :
             /\ msg' = [msg EXCEPT ![i] = <<w.msg>>]
             /\ idx' = [idx EXCEPT ![i] = k]
             /\ IF w.panic
                THEN /\ dpc' = [dpc EXCEPT ![i] = "panic"]
                     /\ mpc' = [mpc EXCEPT ![i] = "exited"]
                     /\ exit' = [exit EXCEPT ![i] = "panic"]
                ELSE /\ dpc' = [dpc EXCEPT ![i] = "send"]
                     /\ UNCHANGED mainVars
    ELSE /\ msg' = [msg EXCEPT ![i] = <<>>]
         /\ idx' = [idx EXCEPT ![i] = 0]
         /\ dpc' = [dpc EXCEPT ![i] = AfterArm(e)]
         /\ UNCHANGED mainVars

\* receiver.recv_async() yields event e: match it and run the loop body up to
\* its first await
HandleEvent(i, e) ==
    /\ Running(i)
    /\ dpc[i] = "recv_async"
    /\ sub[i] = "open"
    /\ ev' = [ev EXCEPT ![i] = <<e>>]
    /\ evq' = [evq EXCEPT ![i] = <<>>]
    /\ nEvents' = [nEvents EXCEPT ![i] = @ + 1]
    /\ ForLoop(i, e, 1)
    /\ events' = Record(events, i, e)
    /\ UNCHANGED <<cfg, sock, record, sub, queue, sendVars, rlog, net, resVars, parseVars,
                   tracing, enq, txd, nDelays>>

DiscRecvEvent(i) ==
    /\ nEvents[i] < MaxEvents
    /\ \E e \in EventInputs : HandleEvent(i, e)

\* the collaborator closes the event stream
SubscriptionClose(i) ==
    /\ Running(i)
    /\ sub[i] = "open"
    /\ sub' = [sub EXCEPT ![i] = "closed"]
    /\ UNCHANGED <<cfg, mainVars, sock, record, dpc, ev, idx, msg, evq, nEvents,
                   queue, sendVars, rlog, net, resVars, parseVars, histVars>>

\* a loop that turns the closed stream into an error
LoopEndError == "RecvError"

\* what run returns once `while let Ok(event) = ...` sees the stream closed:
\* the Ok(()) after the loop
LoopEndResult == "ok"

\* recv_async() returns Err: the while-let ends and run returns
DiscLoopEnd(i) ==
    /\ Running(i)
    /\ dpc[i] = "recv_async"
    /\ sub[i] = "closed"
    /\ dpc' = [dpc EXCEPT ![i] = "done"]
    /\ Finish(i, sRes[i], rRes[i], LoopEndResult)
    /\ UNCHANGED <<cfg, sock, record, sub, ev, idx, msg, evq, nEvents, queue,
                   sendVars, rlog, net, parseVars, histVars>>

\* a channel without a capacity (unbounded())
HasRoomUnbounded(q) == TRUE

\* bounded(10): send completes only while the channel holds fewer than 10
HasRoom(q) == Len(q) < QueueCap

\* a channel that hands out the newest message first
ChanPushFront(q, m) == <<m>> \o q

\* the channel is a FIFO: send puts the message behind those already queued
ChanPush(q, m) == Append(q, m)

\* tx.send(msg).await completes, and the for loop runs on to its next await
DiscEnqueue(i) ==
    /\ Running(i)
    /\ dpc[i] = "send"
    /\ IF RxDropped(i)
       THEN /\ dpc' = [dpc EXCEPT ![i] = "done"]
            /\ Finish(i, sRes[i], rRes[i], "SendError")
            /\ UNCHANGED <<queue, evq, msg, idx, enq>>
       ELSE /\ HasRoom(queue[i])
            /\ queue' = [queue EXCEPT ![i] = ChanPush(@, msg[i][1])]
            /\ enq' = Record(enq, i, msg[i][1])
            /\ evq' = [evq EXCEPT ![i] = Append(@, msg[i][1].dst)]
            /\ \E e \in Range(ev[i]) : ForLoop(i, e, idx[i] + 1)
            /\ UNCHANGED resVars
    /\ UNCHANGED <<cfg, sock, record, sub, ev, nEvents, sendVars, rlog, net, parseVars,
                   tracing, events, txd, nDelays>>

\* futures_timer::Delay::new(500 ms) elapses
DiscDelay(i) ==
    /\ Running(i)
    /\ dpc[i] = "delay"
    /\ dpc' = [dpc EXCEPT ![i] = "recv_async"]
    /\ ev' = [ev EXCEPT ![i] = <<>>]
    /\ evq' = [evq EXCEPT ![i] = <<>>]
    /\ nDelays' = [nDelays EXCEPT ![i] = @ + 1]
    /\ UNCHANGED <<cfg, mainVars, sock, record, sub, idx, msg, nEvents, queue,
                   sendVars, rlog, net, resVars, parseVars, tracing, events, enq, txd>>

\* ------------------------------------------------------------------------
\* UdpService::run
\* ------------------------------------------------------------------------

Datagram(dst, src, payload) == [dst |-> dst, src |-> src, payload |-> payload]

\* the socket of process i
LocalAddr(i) == <<IpOf(i), sock[i]>>

\* datagrams waiting at the socket of process i
Inbox(i) == {d \in net : d.dst = LocalAddr(i)}

\* the network carries d to a bound socket of a running process if there is
\* room for it; a datagram for any other address leaves the model
Transmit(d) ==
    IF /\ \E j \in Inst : mpc[j] = "try_zip" /\ d.dst = LocalAddr(j)
       /\ Cardinality({x \in net : x.dst = d.dst}) < MaxNet
    THEN net \cup {d}
    ELSE net

\* rx.recv().await yields the oldest queued message
SendDequeue(i) ==
    /\ Running(i)
    /\ spc[i] = "recv"
    /\ queue[i] # <<>>
    /\ cur' = [cur EXCEPT ![i] = <<Head(queue[i])>>]
    /\ queue' = [queue EXCEPT ![i] = Tail(@)]
    /\ spc' = [spc EXCEPT ![i] = "send_to"]
    /\ UNCHANGED <<cfg, mainVars, sock, discVars, sent, rlog, net, resVars, parseVars, histVars>>

\* a channel whose recv fails as soon as the Sender is gone
RecvFailsEarly(i) == TxDropped(i)

\* when recv on the channel returns Err: it is closed (its Sender is gone)
\* and empty; queued messages are still handed out after the close
RecvFails(i) == queue[i] = <<>> /\ TxDropped(i)

\* rx.recv().await fails: the channel is empty and its Sender is gone
SendChanClosed(i) ==
    /\ Running(i)
    /\ spc[i] = "recv"
    /\ RecvFails(i)
    /\ Finish(i, "RecvError", rRes[i], dRes[i])
    /\ UNCHANGED <<cfg, sock, discVars, queue, sendVars, rlog, net, parseVars, histVars>>

\* sock.send_to(&buf, dst): the whole buffer
SentBytes(m) == m.buf

\* sock.send_to(&buf, dst).await completes; the loop returns to rx.recv()
SendTo(i) ==
    /\ Running(i)
    /\ spc[i] = "send_to"
    /\ LET d == Datagram(cur[i][1].dst, LocalAddr(i), SentBytes(cur[i][1]))
       IN  /\ sent' = [sent EXCEPT ![i] = <<d>>]
           /\ net' = Transmit(d)
           /\ txd' = Record(txd, i, [dst |-> d.dst, payload |-> d.payload])
    /\ cur' = [cur EXCEPT ![i] = <<>>]
    /\ spc' = [spc EXCEPT ![i] = "recv"]
    /\ UNCHANGED <<cfg, mainVars, sock, discVars, queue, rlog, resVars, parseVars,
                   tracing, events, enq, nDelays>>

\* sock.send_to fails
SendToErr(i) ==
    /\ Running(i)
    /\ spc[i] = "send_to"
    /\ Finish(i, "SocketSendError", rRes[i], dRes[i])
    /\ UNCHANGED <<cfg, sock, discVars, queue, sendVars, rlog, net, parseVars, histVars>>

\* a receive buffer that grows to the datagram's size
ReceivedWhole(payload) == payload

\* recv_from(&mut buf) with buf = vec![0u8; 1 << 10]: the bytes kept, buf[0..n]
Received(payload) ==
    IF Len(payload) <= BufCap THEN payload ELSE SubSeq(payload, 1, BufCap)

\* sock.recv_from yields a datagram; it is logged and the loop repeats
RecvFrom(i) ==
    /\ Running(i)
    /\ rRes[i] = "pending"
    /\ \E d \in Inbox(i) :
           /\ rlog' = [rlog EXCEPT ![i] = <<[text |-> Received(d.payload), from |-> d.src]>>]
           /\ net' = net \ {d}
    /\ UNCHANGED <<cfg, mainVars, sock, discVars, queue, sendVars, resVars, parseVars, histVars>>

\* sock.recv_from fails
RecvFromErr(i) ==
    /\ Running(i)
    /\ rRes[i] = "pending"
    /\ Finish(i, sRes[i], "SocketRecvError", dRes[i])
    /\ UNCHANGED <<cfg, sock, discVars, queue, sendVars, rlog, net, parseVars, histVars>>

\* examples/udpsend: "Hello There" from a socket bound to 127.0.0.1 (address 0)
UdpSend(i) ==
    /\ Running(i)
    /\ LET d == Datagram(LocalAddr(i), <<0, EphemeralPort>>, TxtHello)
       IN  /\ Transmit(d) # net
           /\ net' = Transmit(d)
    /\ UNCHANGED <<cfg, mainVars, sock, discVars, queue, sendVars, rlog, resVars, parseVars, histVars>>

\* ------------------------------------------------------------------------
\* One process and its environment
\* ------------------------------------------------------------------------

MainStep(i) == UdpNew(i) \/ UdpNewFail(i)

DiscStep(i) == DiscStart(i) \/ DiscLoopEnd(i) \/ DiscEnqueue(i) \/ DiscDelay(i)

SendStep(i) == SendDequeue(i) \/ SendChanClosed(i) \/ SendTo(i) \/ SendToErr(i)

Next ==
    \E i \in Inst :
        \/ UdpNew(i)
        \/ UdpNewFail(i)
        \/ DiscStart(i)
        \/ DiscRecvEvent(i)
        \/ SubscriptionClose(i)
        \/ DiscLoopEnd(i)
        \/ DiscEnqueue(i)
        \/ DiscDelay(i)
        \/ SendDequeue(i)
        \/ SendChanClosed(i)
        \/ SendTo(i)
        \/ SendToErr(i)
        \/ RecvFrom(i)
        \/ RecvFromErr(i)
        \/ UdpSend(i)

Spec == Init /\ [][Next]_vars

\* the scheduling of one process: the executor polls every task that can
\* make progress, and a socket send completes (or fails)
Fairness ==
    \A i \in Inst :
        /\ WF_vars(MainStep(i))
        /\ WF_vars(DiscStep(i))
        /\ WF_vars(SendStep(i))

FairSpec == Spec /\ Fairness

\* ------------------------------------------------------------------------
\* Command line: clap hands each properties argument to parse_key_val
\* ------------------------------------------------------------------------

ParseInit ==
    /\ Boot([i \in Inst |-> NoConfig], {})
    /\ arg \in ArgStrings
    /\ parsed = <<>>
    /\ HistInit(FALSE)

ParseArg ==
    /\ parsed = <<>>
    /\ parsed' = <<parse_key_val(arg)>>
    /\ UNCHANGED <<cfg, mainVars, sock, discVars, queue, sendVars, rlog, net, resVars, arg, histVars>>

ParseNext == ParseArg

ParseSpec == ParseInit /\ [][ParseNext]_vars

\* ------------------------------------------------------------------------
\* Two processes with the same service name on one subnet
\* ------------------------------------------------------------------------

\* events one process receives in the two-process runs
PeerMaxEvents == 2

PeerInit ==
    /\ Boot([i \in Inst |-> IF i = 1
                            THEN [instance_name |-> NameA, port |-> DefaultPort]
                            ELSE [instance_name |-> NameB, port |-> ConfiguredPort]],
            Inst)
    /\ arg = <<>>
    /\ parsed = <<>>
    /\ HistInit(FALSE)

\* the "resolved" event the collaborator builds from the record process j
\* registered
ResolvedEvent(j) ==
    Event("ServiceResolved", <<IpOf(j)>>, record[j][1].port, record[j][1].fullname)

\* the collaborator delivers to process i the "resolved" event for its peer
PeerResolved(i) ==
    /\ nEvents[i] < PeerMaxEvents
    /\ \E j \in Inst \ {i} :
           /\ record[j] # <<>>
           /\ HandleEvent(i, ResolvedEvent(j))

\* the collaborator delivers some other event first
PeerOther(i) ==
    /\ nEvents[i] + 1 < PeerMaxEvents
    /\ HandleEvent(i, Event("ServiceFound", <<>>, 0, <<>>))

\* no failure of the daemon and no socket error
PeerStart(i) ==
    /\ DiscStart(i)
    /\ dRes'[i] = "pending"

PeerNext ==
    \E i \in Inst :
        \/ UdpNew(i)
        \/ PeerStart(i)
        \/ PeerResolved(i)
        \/ PeerOther(i)
        \/ DiscEnqueue(i)
        \/ DiscDelay(i)
        \/ SendDequeue(i)
        \/ SendTo(i)
        \/ RecvFrom(i)

\* fair scheduling of every task, and a collaborator that does deliver the
\* "resolved" event
PeerFairness ==
    \A i \in Inst :
        /\ WF_vars(UdpNew(i))
        /\ WF_vars(PeerStart(i))
        /\ WF_vars(PeerResolved(i))
        /\ WF_vars(DiscEnqueue(i) \/ DiscDelay(i))
        /\ WF_vars(SendDequeue(i) \/ SendTo(i))
        /\ WF_vars(RecvFrom(i))

PeerSpec == PeerInit /\ [][PeerNext]_vars /\ PeerFairness

\* ------------------------------------------------------------------------
\* One process whose history is recorded
\* ------------------------------------------------------------------------

\* events the collaborator delivers in the recorded runs
TraceMaxEvents == 2

\* "n3"
NameC == <<110, 51>>

\* the kinds of mdns_sd::ServiceEvent other than ServiceResolved
OtherKinds == {"SearchStarted", "ServiceFound", "ServiceRemoved", "SearchStopped"}

\* two peers that differ in addresses and name, a peer whose name does not
\* fit the buffer, and the events that carry no ServiceInfo
TraceEvents ==
    {Event("ServiceResolved", <<2, 3>>, PeerPort, FullName(NameB)),
     Event("ServiceResolved", <<3>>, PeerPort, FullName(NameC)),
     Event("ServiceResolved", <<2>>, PeerPort, LongFullName)}
    \cup {Event(k, <<>>, 0, FullName(NameB)) : k \in OtherKinds}

TraceInit ==
    /\ Boot([i \in Inst |-> IF i = 1
                            THEN [instance_name |-> NameA, port |-> DefaultPort]
                            ELSE NoConfig],
            {1})
    /\ arg = <<>>
    /\ parsed = <<>>
    /\ HistInit(TRUE)

TraceRecvEvent(i) ==
    /\ nEvents[i] < TraceMaxEvents
    /\ \E e \in TraceEvents : HandleEvent(i, e)

\* the recorded runs: every failure can happen; no datagram arrives
TraceNext ==
    \E i \in Inst :
        \/ UdpNew(i)
        \/ UdpNewFail(i)
        \/ DiscStart(i)
        \/ TraceRecvEvent(i)
        \/ SubscriptionClose(i)
        \/ DiscLoopEnd(i)
        \/ DiscEnqueue(i)
        \/ DiscDelay(i)
        \/ SendDequeue(i)
        \/ SendChanClosed(i)
        \/ SendTo(i)
        \/ SendToErr(i)
        \/ RecvFromErr(i)

TraceSpec == TraceInit /\ [][TraceNext]_vars

\* the recorded runs without socket errors and without startup failures
CalmNext ==
    \E i \in Inst :
        \/ UdpNew(i)
        \/ PeerStart(i)
        \/ TraceRecvEvent(i)
        \/ SubscriptionClose(i)
        \/ DiscLoopEnd(i)
        \/ DiscEnqueue(i)
        \/ DiscDelay(i)
        \/ SendDequeue(i)
        \/ SendChanClosed(i)
        \/ SendTo(i)
        \/ RecvFrom(i)
        \/ UdpSend(i)

\* the executor polls every task that can make progress, and a socket send
\* completes
CalmFairness ==
    \A i \in Inst :
        /\ WF_vars(UdpNew(i))
        /\ WF_vars(PeerStart(i))
        /\ WF_vars(DiscLoopEnd(i) \/ DiscEnqueue(i) \/ DiscDelay(i))
        /\ WF_vars(SendDequeue(i) \/ SendChanClosed(i) \/ SendTo(i))

CalmSpec == TraceInit /\ [][CalmNext]_vars /\ CalmFairness

\* ------------------------------------------------------------------------
\* One process that is sent datagrams of any size
\* ------------------------------------------------------------------------

\* events the collaborator delivers in these runs
RecvMaxEvents == 2

\* a datagram of 1025 bytes ('B')
BigPayload == [k \in 1..(BufCap + 1) |-> 66]

\* some host sends a datagram larger than the receive buffer
UdpSendBig(i) ==
    /\ Running(i)
    /\ LET d == Datagram(LocalAddr(i), <<0, EphemeralPort>>, BigPayload)
       IN  /\ Transmit(d) # net
           /\ net' = Transmit(d)
    /\ UNCHANGED <<cfg, mainVars, sock, discVars, queue, sendVars, rlog, resVars, parseVars, histVars>>

RecvSpecEvent(i) ==
    /\ nEvents[i] < RecvMaxEvents
    /\ \E e \in EventInputs : HandleEvent(i, e)

RecvNext ==
    \E i \in Inst :
        \/ UdpNew(i)
        \/ UdpNewFail(i)
        \/ DiscStart(i)
        \/ RecvSpecEvent(i)
        \/ SubscriptionClose(i)
        \/ DiscLoopEnd(i)
        \/ DiscEnqueue(i)
        \/ DiscDelay(i)
        \/ SendDequeue(i)
        \/ SendChanClosed(i)
        \/ SendTo(i)
        \/ SendToErr(i)
        \/ RecvFrom(i)
        \/ RecvFromErr(i)
        \/ UdpSend(i)
        \/ UdpSendBig(i)

RecvSpec == Init /\ [][RecvNext]_vars

\* ------------------------------------------------------------------------
\* Properties
\* ------------------------------------------------------------------------

IsPrefix(s, u) == Len(s) <= Len(u) /\ s = SubSeq(u, 1, Len(s))

\* the errors the tasks of process i have returned
ErrorsOf(i) == {sRes[i], rRes[i], dRes[i]} \cap Errors

\* one of the two main loops of process i has returned an error
Failed(i) == ErrorsOf(i) # {}

\* everything the two loops of process i act on
LoopState(i) ==
    <<queue[i], msg[i], evq[i], ev[i], idx[i], nEvents[i], dpc[i], record[i],
      spc[i], cur[i], sent[i], rlog[i]>>

\* C1: once either main loop of a process has returned an error, the other
\* loop does nothing more (no enqueue, no datagram, no event), whatever await
\* it was suspended in, and the process has exited with exactly that error.
C1_FailFast ==
    [][\A i \in Inst :
          /\ Failed(i)' => /\ mpc'[i] = "exited"
                           /\ ErrorsOf(i)' = {exit'[i]}
          /\ Failed(i) => /\ LoopState(i)' = LoopState(i)
                          /\ exit'[i] = exit[i]
                          /\ {d \in net' : d.src = LocalAddr(i)}
                                 \subseteq {d \in net : d.src = LocalAddr(i)}]_vars

\* the receive task failed while the discovery loop was suspended on the full
\* queue and the send task in send_to
C1_Witness ==
    /\ exit[1] = "SocketRecvError"
    /\ rRes[1] = "SocketRecvError"
    /\ dpc[1] = "send"
    /\ Len(queue[1]) = QueueCap
    /\ spc[1] = "send_to"

\* C2: the queue never holds more than 10 messages; while it holds 10 the
\* discovery loop stays suspended in its enqueue with the same message and
\* handles nothing, and whenever the loop leaves that enqueue the message it
\* held has been appended to the queue.
C2_Backpressure ==
    [][\A i \in Inst :
          /\ Len(queue'[i]) <= QueueCap
          /\ (dpc[i] = "send" /\ Len(queue[i]) = QueueCap)
                 => /\ dpc'[i] = "send"
                    /\ msg'[i] = msg[i]
                    /\ <<ev[i], evq[i], idx[i], nEvents[i]>>' = <<ev[i], evq[i], idx[i], nEvents[i]>>
                    /\ queue'[i] \in {queue[i], Tail(queue[i])}
          /\ (dpc[i] = "send" /\ <<dpc[i], msg[i], idx[i]>>' # <<dpc[i], msg[i], idx[i]>>)
                 => /\ dpc'[i] # "done"
                    /\ queue'[i] = Append(queue[i], msg[i][1])]_vars

\* the producer is suspended with an 11th message, the queue holds 10 and the
\* consumer is stalled in send_to
C2_Witness ==
    /\ mpc[1] = "try_zip"
    /\ dpc[1] = "send"
    /\ msg[1] # <<>>
    /\ Len(queue[1]) = QueueCap
    /\ spc[1] = "send_to"

\* the destinations a "resolved" event asks for: (address_k, port), in order
ExpectedDsts(e) == [k \in 1..Len(e.addrs) |-> <<e.addrs[k], e.port>>]

\* C3: for a "resolved" event with N IPv4 addresses and port p the loop
\* enqueues the messages for (address_1, p), (address_2, p), ... in that
\* order, and when it has finished the event (it is in the pacing delay) it
\* has enqueued exactly N of them; with N = 0 it has enqueued none.
C3_OnePerAddress ==
    \A i \in Inst :
        (ev[i] # <<>> /\ ev[i][1].kind = "ServiceResolved") =>
            LET e == ev[i][1]
            IN  /\ IsPrefix(evq[i], ExpectedDsts(e))
                /\ dpc[i] = "send" => /\ Len(evq[i]) < Len(e.addrs)
                                      /\ msg[i][1].dst = ExpectedDsts(e)[Len(evq[i]) + 1]
                /\ dpc[i] = "delay" => evq[i] = ExpectedDsts(e)

\* an event with two addresses has been handled to its end
C3_Witness ==
    /\ dpc[1] = "delay"
    /\ ev[1] # <<>>
    /\ ev[1][1].kind = "ServiceResolved"
    /\ Len(ev[1][1].addrs) = 2
    /\ evq[1] = <<<<2, PeerPort>>, <<3, PeerPort>>>>

\* C4: the datagram handed to send_to carries exactly buf[0..n] of the
\* dequeued message and goes to that message's destination.
C4_SendsValidRange ==
    [][\A i \in Inst :
          (spc[i] = "send_to" /\ spc'[i] = "recv") =>
              /\ sent'[i][1].dst = cur[i][1].dst
              /\ sent'[i][1].payload = SubSeq(cur[i][1].buf, 1, cur[i][1].n)]_vars

\* the event subscription of process i is closed and the process has not
\* terminated with a failure (an error from main, or a panic)
ClosedAndAlive(i) ==
    /\ sub[i] = "closed"
    /\ ~(mpc[i] = "exited" /\ exit[i] \in Errors \cup {"panic"})

\* C5: a process whose event subscription is closed does not keep running
\* indefinitely: it terminates with a failure (the subscription stays
\* closed and the exit is final, so "always eventually" is "eventually");
\* and it never exits successfully.
C5_ClosedSubscriptionFails ==
    /\ []<>(\A i \in Inst : ~ClosedAndAlive(i))
    /\ [](\A i \in Inst : exit[i] # "ok")

\* the subscription closed, the loop ended, the queue drained and the send
\* task's failed dequeue ended the process
C5_Witness ==
    /\ sub[1] = "closed"
    /\ dpc[1] = "done"
    /\ nEvents[1] > 0
    /\ mpc[1] = "exited"
    /\ exit[1] = "RecvError"

\* C6 as stated: DiscoveryService::run never completes with a success result.
C6_NeverSucceeds == \A i \in Inst : dRes[i] # "ok"

\* C6, amended: DiscoveryService::run completes with a success result only
\* once the event subscription has closed, and then it does: the closed
\* stream ends the loop with Ok(()), never with an error.
C6_SucceedsOnlyOnClose ==
    \A i \in Inst :
        /\ dRes[i] = "ok" => (sub[i] = "closed" /\ dpc[i] = "done")
        /\ (dpc[i] = "done" /\ sub[i] = "closed") => dRes[i] = "ok"

\* run has returned Ok(()) after handling events
C6_Witness == dRes[1] = "ok" /\ nEvents[1] > 0 /\ sub[1] = "closed"

\* every Message a process holds: under construction, queued, dequeued
Messages(i) == Range(msg[i]) \cup Range(queue[i]) \cup Range(cur[i])

\* C7: every outbound message, wherever it is, has n <= 1024 (and a buffer
\* of exactly 1024 bytes), whatever the instance name and the peer's name.
C7_LengthWithinCapacity ==
    \A i \in Inst : \A m \in Messages(i) : m.n <= BufCap /\ Len(m.buf) = BufCap

\* a queued message fills the buffer exactly
C7_Witness == \E m \in Range(queue[1]) : m.n = BufCap

\* the announcement for event e does not fit the buffer
Oversized(i, e) ==
    Len(AnnouncementText(cfg[i].instance_name, e.fullname)) > BufCap

\* C8: building a message whose text exceeds 1024 bytes fails cleanly: the
\* process does not crash, the buffer is not left partly overwritten, and
\* the message is not enqueued.
C8_OverflowFailsCleanly ==
    \A i \in Inst :
        (/\ ev[i] # <<>>
         /\ ev[i][1].kind = "ServiceResolved"
         /\ ev[i][1].addrs # <<>>
         /\ Oversized(i, ev[i][1]))
            => /\ exit[i] # "panic"
               /\ dpc[i] # "panic"
               /\ \A m \in Range(msg[i]) : m.buf = ZeroBuf
               /\ evq[i] = <<>>

\* the text by which process j announces itself
AnnouncedBy(j) == TxtMessage \o cfg[j].instance_name \o TxtResolved

\* process i has logged a datagram in which its peer announces itself
HeardPeer(i) ==
    /\ rlog[i] # <<>>
    /\ \E j \in Inst \ {i} : Contains(rlog[i][1].text, AnnouncedBy(j))

\* C9: two processes, each delivered the "resolved" event for the other,
\* fairly scheduled and without socket errors: each eventually receives a
\* datagram whose payload contains the other's instance name, within the
\* PeerMaxEvents loop iterations the runs allow.
C9_PeersHearEachOther == <>(\A i \in Inst : HeardPeer(i))

C9_Witness == \A i \in Inst : HeardPeer(i) /\ nEvents[i] <= PeerMaxEvents

\* C10: an argument with a '=' parses to (text before the first '=', text
\* after it), either of which may be empty; an argument without '=' gives an
\* error whose text contains the argument, and no pair.
C10_SplitsAtFirstEq ==
    parsed # <<>> =>
        LET r == parsed[1]
        IN  IF EqSign \in Range(arg)
            THEN /\ r.ok
                 /\ r.key \o <<EqSign>> \o r.val = arg
                 /\ EqSign \notin Range(r.key)
                 /\ r.err = <<>>
            ELSE /\ ~r.ok
                 /\ Contains(r.err, arg)
                 /\ r.key = <<>> /\ r.val = <<>>

\* a=b=c has been parsed to (a, b=c)
C10_Witness ==
    /\ arg = <<97, EqSign, 98, EqSign, 99>>
    /\ parsed = <<[ok |-> TRUE, key |-> <<97>>, val |-> <<98, EqSign, 99>>, err |-> <<>>]>>

\* ------------------------------------------------------------------------
\* Properties of the recorded runs
\* ------------------------------------------------------------------------

\* the messages a single event asks for: one per address, in the event's
\* order, each carrying the announcement text
MessagesFor(i, e) ==
    IF e.kind = "ServiceResolved"
    THEN [k \in 1..Len(e.addrs) |->
             [dst |-> <<e.addrs[k], e.port>>,
              text |-> AnnouncementText(cfg[i].instance_name, e.fullname)]]
    ELSE <<>>

\* the in-order concatenation of the per-event message lists
RECURSIVE MessagesForAll(_, _)
MessagesForAll(i, es) ==
    IF es = <<>> THEN <<>>
    ELSE MessagesForAll(i, SubSeq(es, 1, Len(es) - 1)) \o MessagesFor(i, es[Len(es)])

\* a Message as (destination, valid bytes)
AsText(m) == [dst |-> m.dst, text |-> SubSeq(m.buf, 1, m.n)]

\* a Message as (destination, bytes of its buffer), which is what send_to is
\* given
AsPair(m) == [dst |-> m.dst, payload |-> m.buf]

\* the Messages of process i that are enqueued and not yet handed to send_to
InFlight(i) == cur[i] \o queue[i]

\* C11: events are handled in the order delivered and messages leave in the
\* order enqueued: what the send task has transmitted is a prefix of what the
\* discovery loop has enqueued (everything else enqueued is, in order, the
\* message being sent and the queue), and what has been enqueued is a prefix
\* of the concatenation of the per-event message lists that holds the lists
\* of all events before the current one, and all of it once the loop is past
\* the current event.  Nothing is duplicated, reordered or fabricated.
C11_InOrder ==
    \A i \in Inst :
        LET enqPairs == [k \in 1..Len(enq[i]) |-> AsPair(enq[i][k])]
            enqTexts == [k \in 1..Len(enq[i]) |-> AsText(enq[i][k])]
            flight   == [k \in 1..Len(InFlight(i)) |-> AsPair(InFlight(i)[k])]
            all      == MessagesForAll(i, events[i])
            before   == MessagesForAll(i, SubSeq(events[i], 1, Len(events[i]) - 1))
        IN  /\ IsPrefix(txd[i], enqPairs)
            /\ enqPairs = txd[i] \o flight
            /\ IsPrefix(enqTexts, all)
            /\ IsPrefix(before, enqTexts)
            /\ dpc[i] \in {"recv_async", "delay", "done"} => enqTexts = all
            /\ (ev[i] # <<>>) => (events[i] # <<>> /\ ev[i][1] = events[i][Len(events[i])])

\* two events, of two addresses and of one, have been handled and their three
\* messages transmitted
C11_Witness ==
    /\ Len(events[1]) = 2
    /\ Len(events[1][1].addrs) = 2
    /\ events[1][2].fullname = FullName(NameC)
    /\ Len(txd[1]) = 3
    /\ [k \in 1..3 |-> txd[1][k].dst] = <<<<2, PeerPort>>, <<3, PeerPort>>, <<3, PeerPort>>>>

\* C12: under fair scheduling and without socket errors every message the
\* discovery loop enqueues is eventually handed to send_to: time and again
\* the send task has transmitted all that has been enqueued.
C12_AllTransmitted ==
    \A i \in Inst : []<>(Len(txd[i]) = Len(enq[i]))

\* ------------------------------------------------------------------------
\* Properties of startup and of the loops' frames
\* ------------------------------------------------------------------------

\* C13: the service record is built and registered only once the socket is
\* bound; its port is the socket's bound port, which is the OS-assigned one
\* when the configured port is 0 and never 0; and neither the record nor
\* the bound port changes afterwards.
C13_RecordHasBoundPort ==
    [][\A i \in Inst :
          /\ record'[i] # record[i] => (record[i] = <<>> /\ sock[i] # 0)
          /\ record'[i] # <<>> =>
                 /\ record'[i][1].port = sock'[i]
                 /\ record'[i][1].port # 0
                 /\ cfg[i].port # 0 => record'[i][1].port = cfg[i].port
          /\ sock[i] # 0 => sock'[i] = sock[i]]_vars

\* configured with port 0, registered with the OS-assigned port, and events
\* handled since
C13_Witness ==
    /\ cfg[1].port = 0
    /\ sock[1] = EphemeralPort
    /\ record[1] # <<>>
    /\ record[1][1].port = EphemeralPort
    /\ nEvents[1] > 1

\* C14: every message the discovery loop enqueues holds, in buf[0..n], exactly
\* "MESSAGE <instance-name> Resolved <peer-fullname> END" for this process's
\* instance name and the full name of the event being handled, n is that
\* text's length, and every byte from index n on is zero.
C14_PayloadIsAnnouncement ==
    [][\A i \in Inst :
          (dpc[i] = "send" /\ queue'[i] = Append(queue[i], msg[i][1])) =>
              LET m    == queue'[i][Len(queue'[i])]
                  text == TxtMessage \o cfg[i].instance_name \o TxtResolved
                              \o ev[i][1].fullname \o TxtEnd
              IN  /\ m.n = Len(text)
                  /\ Len(m.buf) = BufCap
                  /\ \A k \in 1..BufCap :
                         m.buf[k] = IF k <= Len(text) THEN text[k] ELSE 0]_vars

\* "MESSAGE n1 Resolved n2._example._udp.local. END" is queued
C14_Witness ==
    \E m \in Range(queue[1]) :
        /\ m.n = 47
        /\ SubSeq(m.buf, 1, m.n) = AnnouncementText(NameA, FullName(NameB))
        /\ \A k \in 48..BufCap : m.buf[k] = 0

\* the discovery loop of process i is handling an event of a kind other than
\* "resolved"
Ignoring(i) == ev[i] # <<>> /\ ev[i][1].kind # "ServiceResolved"

\* C15: receiving an event of any kind other than "resolved" enqueues nothing
\* and builds no message, leaves the queue, the socket and the registered
\* record as they were, and fails nothing: the loop goes to its pacing delay
\* and from there to the next recv_async, with the process still running.
C15_OtherKindsIgnored ==
    [][\A i \in Inst :
          /\ (nEvents'[i] # nEvents[i] /\ Ignoring(i)') =>
                 /\ queue'[i] = queue[i]
                 /\ enq'[i] = enq[i]
                 /\ sock'[i] = sock[i]
                 /\ record'[i] = record[i]
                 /\ <<mpc[i], exit[i], sRes[i], rRes[i], dRes[i]>>'
                        = <<mpc[i], exit[i], sRes[i], rRes[i], dRes[i]>>
          /\ Ignoring(i)' =>
                 /\ dpc'[i] = "delay"
                 /\ msg'[i] = <<>>
                 /\ evq'[i] = <<>>
                 /\ dRes'[i] = "pending"
                 /\ exit'[i] # "panic"
          /\ (Ignoring(i) /\ dpc'[i] # dpc[i]) =>
                 /\ dpc'[i] = "recv_async"
                 /\ queue'[i] = queue[i]
                 /\ enq'[i] = enq[i]]_vars

\* an ignored event, then a "resolved" one handled after it
C15_Witness ==
    /\ Len(events[1]) = 2
    /\ events[1][1].kind = "SearchStopped"
    /\ events[1][2].kind = "ServiceResolved"
    /\ Len(enq[1]) = 2
    /\ mpc[1] = "try_zip"

\* C16: the receive task ends only with a socket receive error.  Receiving
\* a datagram, one of more than 1024 bytes included, logs its first
\* min(length, 1024) bytes and its sender, returns no error, ends no task and
\* leaves the discovery loop, the send task and the queue as they were; the
\* receive task is then again waiting in recv_from.
C16_ReceiveNeverFails ==
    [][\A i \in Inst :
          /\ rRes'[i] \in {"pending", "SocketRecvError"}
          /\ \A d \in net \ net' :
                 d.dst = LocalAddr(i) =>
                     LET kept == IF Len(d.payload) < BufCap THEN Len(d.payload) ELSE BufCap
                     IN  /\ rlog'[i] = <<[text |-> [k \in 1..kept |-> d.payload[k]],
                                         from |-> d.src]>>
                         /\ <<sRes[i], rRes[i], dRes[i], mpc[i], exit[i]>>'
                                = <<sRes[i], rRes[i], dRes[i], mpc[i], exit[i]>>
                         /\ rRes'[i] = "pending"
                         /\ mpc'[i] = "try_zip"
                         /\ <<dpc[i], ev[i], msg[i], queue[i], spc[i], cur[i]>>'
                                = <<dpc[i], ev[i], msg[i], queue[i], spc[i], cur[i]>>]_vars

\* a datagram of 1025 bytes was received: 1024 bytes are logged and the
\* process runs on, the next datagram already waiting at the socket
C16_Witness ==
    /\ rlog[1] # <<>>
    /\ Len(rlog[1][1].text) = BufCap
    /\ rlog[1][1].text = SubSeq(BigPayload, 1, BufCap)
    /\ mpc[1] = "try_zip"
    /\ rRes[1] = "pending"
    /\ Inbox(1) # {}

\* DiscoveryService::run of process i failed before it had registered its
\* record: ServiceInfo::new, ServiceDaemon::new or register returned an error
RegistrationFailed(i) ==
    dRes[i] \in {"ServiceInfoError", "DaemonError", "RegisterError"}

\* C17: when building or registering the record (or starting the daemon)
\* fails, no subscription is opened and no record is registered, no event is
\* received, nothing has been or is ever enqueued or transmitted, the
\* transport's tasks are cancelled where they were waiting, and the process
\* has exited with exactly that error.
C17_RegistrationFailureFatal ==
    [][\A i \in Inst :
          RegistrationFailed(i)' =>
              /\ sub'[i] = "none"
              /\ record'[i] = <<>>
              /\ nEvents'[i] = 0
              /\ queue'[i] = <<>> /\ msg'[i] = <<>> /\ cur'[i] = <<>>
              /\ sent'[i] = <<>>
              /\ sRes'[i] = "pending" /\ rRes'[i] = "pending"
              /\ spc'[i] = "recv"
              /\ mpc'[i] = "exited"
              /\ exit'[i] = dRes'[i]
              /\ RegistrationFailed(i) => rlog'[i] = rlog[i]]_vars

\* register failed after the socket was bound and a datagram received
C17_Witness ==
    /\ dRes[1] = "RegisterError"
    /\ exit[1] = "RegisterError"
    /\ sock[1] # 0
    /\ rlog[1] # <<>>

\* C18: the discovery loop receives an event only from recv_async and only
\* when one pacing delay has elapsed for each event before it; a delay
\* elapses only while the loop is in it, once per event, and leads to
\* recv_async; the loop enters the delay, after a "resolved" event as after
\* an ignored one, only when every message of the event has been enqueued,
\* and enqueues nothing while in it.
C18_OneDelayPerEvent ==
    [][\A i \in Inst :
          /\ nEvents'[i] # nEvents[i] =>
                 /\ dpc[i] = "recv_async"
                 /\ nEvents'[i] = nEvents[i] + 1
                 /\ nDelays[i] = nEvents[i]
                 /\ nDelays'[i] = nDelays[i]
          /\ nDelays'[i] # nDelays[i] =>
                 /\ dpc[i] = "delay"
                 /\ dpc'[i] = "recv_async"
                 /\ nDelays'[i] = nDelays[i] + 1
                 /\ nDelays'[i] = nEvents[i]
          /\ dpc'[i] = "delay" =>
                 /\ ev'[i] # <<>>
                 /\ evq'[i] = IF ev'[i][1].kind = "ServiceResolved"
                              THEN ExpectedDsts(ev'[i][1]) ELSE <<>>
          /\ dpc[i] = "delay" =>
                 \/ queue'[i] = queue[i]
                 \/ queue[i] # <<>> /\ queue'[i] = Tail(queue[i])
          /\ (dpc[i] = "delay" /\ dpc'[i] # "delay") => nDelays'[i] = nDelays[i] + 1]_vars

\* the fourth event is being handled, one whose second message waits for
\* the queue: three delays have elapsed
C18_Witness ==
    /\ nEvents[1] = 4
    /\ nDelays[1] = 3
    /\ dpc[1] = "send"
    /\ Len(evq[1]) = 1

\* the errors of a closed channel: SendError from tx.send, RecvError from
\* rx.recv
ChannelErrors == {"SendError", "RecvError"}

\* C19: the discovery loop's enqueue never fails with a closed channel: the
\* Receiver is gone only once UdpService::run has returned, and then main
\* has already returned and the discovery loop is no longer polled.  The
\* only closed-channel error any task returns is the send task's RecvError,
\* and that only with the Sender gone and the queue empty.
C19_EnqueueNeverClosed ==
    \A i \in Inst :
        /\ dRes[i] \notin ChannelErrors
        /\ rRes[i] \notin ChannelErrors
        /\ sRes[i] # "SendError"
        /\ exit[i] # "SendError"
        /\ RxDropped(i) => ~Running(i)
        /\ sRes[i] = "RecvError" => (TxDropped(i) /\ queue[i] = <<>>)

\* UdpService::run returned a socket error while the discovery loop was
\* suspended in tx.send on a non-empty queue
C19_Witness ==
    /\ sRes[1] = "SocketSendError"
    /\ RxDropped(1)
    /\ dpc[1] = "send"
    /\ queue[1] # <<>>
    /\ dRes[1] = "pending"

\* C20: without socket errors and under fair scheduling, a process whose
\* event subscription has closed ends with the send task's RecvError, and
\* the send task's dequeue fails only when the Sender is gone, the queue is
\* empty and every message ever enqueued has been handed to send_to, in the
\* order enqueued; main returns that error in the same step.
C20_DrainsBeforeClose ==
    /\ [][\A i \in Inst :
            (sRes[i] = "pending" /\ sRes'[i] # "pending") =>
                /\ sRes'[i] = "RecvError"
                /\ TxDropped(i)
                /\ queue[i] = <<>> /\ cur[i] = <<>>
                /\ txd[i] = [k \in 1..Len(enq[i]) |-> AsPair(enq[i][k])]
                /\ mpc'[i] = "exited"
                /\ exit'[i] = "RecvError"]_vars
    /\ []<>(\A i \in Inst : sub[i] = "closed" => exit[i] = "RecvError")

\* the subscription has closed and the loop has ended (the Sender is gone)
\* with one message handed to send_to, one being sent and one still queued
C20_Witness ==
    /\ sub[1] = "closed"
    /\ dRes[1] = "ok"
    /\ Len(enq[1]) = 3
    /\ Len(txd[1]) = 1
    /\ spc[1] = "send_to"
    /\ Len(queue[1]) = 1
    /\ mpc[1] = "try_zip"

=============================================================================
